---- MODULE Spec2Model ----
(***************************************************************************)
(* A model of the split_controller crate (src/src/lib.rs, src/src/math.rs).*)
(*                                                                         *)
(* Scalars are f64 in the source.  The model uses integers: every border   *)
(* it constructs is even, so 0.5 * border is an integer and every sum,     *)
(* difference, max and min the code computes is exact on these values.     *)
(* NaN and infinities are outside the model.                               *)
(***************************************************************************)
EXTENDS Integers, FiniteSets, Sequences, TLC

(***************************************************************************)
(* Bounds of the model.                                                    *)
(***************************************************************************)
\* Pointer coordinates of the events are drawn from 0..MaxCoord on each axis.
MaxCoord == 5
\* Side of the large window rectangle handed to event().
MaxSide == 6
\* Origin of the second, displaced window rectangle.
RectOrigin == 1

(***************************************************************************)
(* Constants of the program.                                               *)
(***************************************************************************)
LEFT == 1
RIGHT == 2
TOP == 4
BOTTOM == 8

Edges == {"left", "right", "top", "bottom"}

\* The bit of the mask that stands for an edge.
EdgeBit(edge) ==
    CASE edge = "left" -> LEFT
      [] edge = "right" -> RIGHT
      [] edge = "top" -> TOP
      [] edge = "bottom" -> BOTTOM

\* (mask & bit) == bit, for a mask below 16 and a one-bit constant.
HasBit(mask, bit) == (mask \div bit) % 2 = 1

\* f64::max and f64::min on the finite values of the model.
Max(a, b) == IF a >= b THEN a ELSE b
Min(a, b) == IF a <= b THEN a ELSE b

(***************************************************************************)
(* math.rs                                                                 *)
(***************************************************************************)
\* A Matrix2d is <<<<a, b, tx>>, <<c, d, ty>>>>.  The model draws matrices of
\* determinant 1 or -1 only, for which 1/det = det and the inverse is exact.
identity == << <<1, 0, 0>>, <<0, 1, 0>> >>

\* vecmath::mat2x3_inv
inv(m) ==
    LET det == m[1][1] * m[2][2] - m[1][2] * m[2][1]
        inv_det == det
    IN  << << m[2][2] * inv_det, (0 - m[1][2]) * inv_det,
              (m[1][2] * m[2][3] - m[1][3] * m[2][2]) * inv_det >>,
           << (0 - m[2][1]) * inv_det, m[1][1] * inv_det,
              (m[1][3] * m[2][1] - m[1][1] * m[2][3]) * inv_det >> >>

\* vecmath::row_mat2x3_transform_pos2
transform_pos(m, pos) ==
    << m[1][1] * pos[1] + m[1][2] * pos[2] + m[1][3],
       m[2][1] * pos[1] + m[2][2] * pos[2] + m[2][3] >>

\* Returns true if point is inside rectangle (half-open on both axes).
is_inside(pos, rect) ==
    /\ pos[1] >= rect[1]
    /\ pos[2] >= rect[2]
    /\ pos[1] < rect[1] + rect[3]
    /\ pos[2] < rect[2] + rect[4]

\* Returns the position inside a transform matrix.
inside_pos(outside_pos, transform) == transform_pos(inv(transform), outside_pos)

(***************************************************************************)
(* Input events.  An event of the input crate has one event id, so at most *)
(* one of mouse_cursor_args, press_args and release_args returns Some.     *)
(***************************************************************************)
NoPos == <<0, 0>>

MoveEvent(pos) == [kind |-> "move", pos |-> pos, button |-> "none"]
PressEvent(button) == [kind |-> "press", pos |-> NoPos, button |-> button]
ReleaseEvent(button) == [kind |-> "release", pos |-> NoPos, button |-> button]
OtherEvent == [kind |-> "other", pos |-> NoPos, button |-> "none"]

\* e.mouse_cursor_args() is Some(pos)
has_mouse_cursor_args(e) == e.kind = "move"
\* e.press_args() is Some(Button::Mouse(MouseButton::Left))
\* A press test that takes any button.
IsAnyPress(e) == e.kind = "press"

is_left_press(e) == e.kind = "press" /\ e.button = "Left"
\* e.release_args() is Some(Button::Mouse(MouseButton::Left))
is_left_release(e) == e.kind = "release" /\ e.button = "Left"

(***************************************************************************)
(* SplitController                                                         *)
(***************************************************************************)
\* The whole border in the place of its half.
WholeBorder(border) == border

\* 0.5 * border; the borders of the model are even.
HalfBorder(border) == border \div 2

SplitController_new(value, min_value, border, orientation) ==
    [ mouse_hover |-> FALSE,
      dragging |-> FALSE,
      value |-> value,
      min_value |-> min_value,
      border |-> border,
      orientation |-> orientation ]

is_dragging(self) == self.dragging

\* line_rect with the far edges measured from the near side.
LineRectFromNearSide(self, layout, rect) ==
    IF self.orientation \in {"Left", "Right"}
    THEN << rect[1] + self.value, rect[2] + layout.start,
            self.border, rect[4] - layout.start - layout.end >>
    ELSE << rect[1] + layout.start, rect[2] + self.value,
            rect[3] - layout.start - layout.end, self.border >>

\* Gets line rectangle [x, y, w, h] from rectangle [x, y, w, h] of parent panel.
line_rect(self, layout, rect) ==
    CASE self.orientation = "Left" ->
           << rect[1] + self.value, rect[2] + layout.start,
              self.border, rect[4] - layout.start - layout.end >>
      [] self.orientation = "Right" ->
           << rect[1] + rect[3] - self.value - self.border, rect[2] + layout.start,
              self.border, rect[4] - layout.start - layout.end >>
      [] self.orientation = "Top" ->
           << rect[1] + layout.start, rect[2] + self.value,
              rect[3] - layout.start - layout.end, self.border >>
      [] self.orientation = "Bottom" ->
           << rect[1] + layout.start, rect[2] + rect[4] - self.value - self.border,
              rect[3] - layout.start - layout.end, self.border >>

\* DragValue without the lower limit.
DragValueWithoutMin(self, max_value, rect, pos) ==
    CASE self.orientation = "Left" ->
           Min(pos[1] - rect[1] - HalfBorder(self.border), max_value)
      [] self.orientation = "Right" ->
           Min(rect[3] - pos[1] + rect[1] - HalfBorder(self.border), max_value)
      [] self.orientation = "Top" ->
           Min(pos[2] - rect[2] - HalfBorder(self.border), max_value)
      [] self.orientation = "Bottom" ->
           Min(rect[2] + rect[4] - pos[2] - HalfBorder(self.border), max_value)

\* DragValue with the two limits applied in the other order.
DragValueMinFirst(self, max_value, rect, pos) ==
    CASE self.orientation = "Left" ->
           Max(Min(pos[1] - rect[1] - HalfBorder(self.border), max_value), self.min_value)
      [] self.orientation = "Right" ->
           Max(Min(rect[3] - pos[1] + rect[1] - HalfBorder(self.border), max_value),
               self.min_value)
      [] self.orientation = "Top" ->
           Max(Min(pos[2] - rect[2] - HalfBorder(self.border), max_value), self.min_value)
      [] self.orientation = "Bottom" ->
           Max(Min(rect[2] + rect[4] - pos[2] - HalfBorder(self.border), max_value),
               self.min_value)

\* The value a dragging split takes from the pointer position pos (local space).
DragValue(self, max_value, rect, pos) ==
    CASE self.orientation = "Left" ->
           Min(Max(pos[1] - rect[1] - HalfBorder(self.border), self.min_value), max_value)
      [] self.orientation = "Right" ->
           Min(Max(rect[3] - pos[1] + rect[1] - HalfBorder(self.border), self.min_value),
               max_value)
      [] self.orientation = "Top" ->
           Min(Max(pos[2] - rect[2] - HalfBorder(self.border), self.min_value), max_value)
      [] self.orientation = "Bottom" ->
           Min(Max(rect[2] + rect[4] - pos[2] - HalfBorder(self.border), self.min_value),
               max_value)

\* A pointer-move that moves the value whether or not the split is dragging.
OnMouseCursorAlwaysMoves(self, layout, max_value, rect, transform, e) ==
    [self EXCEPT !.value = DragValue(self, max_value, rect, inside_pos(e.pos, transform)),
                 !.mouse_hover =
                     is_inside(inside_pos(e.pos, transform),
                               line_rect([self EXCEPT !.value =
                                              DragValue(self, max_value, rect,
                                                        inside_pos(e.pos, transform))],
                                         layout, rect))]

\* The pointer-move part of SplitController::event.
OnMouseCursor(self, layout, max_value, rect, transform, e) ==
    LET pos == inside_pos(e.pos, transform)
        moved == IF self.dragging
                 THEN [self EXCEPT !.value = DragValue(self, max_value, rect, pos)]
                 ELSE self
    IN  [moved EXCEPT !.mouse_hover = is_inside(pos, line_rect(moved, layout, rect))]

\* A press that starts a drag whether or not the split is hovered.
OnPressAlways(self) == [self EXCEPT !.dragging = TRUE]

\* The left-button press part of SplitController::event.
OnPress(self) ==
    IF self.mouse_hover THEN [self EXCEPT !.dragging = TRUE] ELSE self

\* A release that only ends the drag of a hovered split.
OnReleaseIfHover(self) ==
    IF self.mouse_hover THEN [self EXCEPT !.dragging = FALSE] ELSE self

\* A release that also clears the hover flag.
OnReleaseClearsHover(self) == [self EXCEPT !.dragging = FALSE, !.mouse_hover = FALSE]

\* The left-button release part of SplitController::event.
OnRelease(self) == [self EXCEPT !.dragging = FALSE]

\* SplitController::event: the three tests run one after the other.
SplitController_event(self, layout, max_value, rect, transform, e) ==
    LET s1 == IF has_mouse_cursor_args(e)
              THEN OnMouseCursor(self, layout, max_value, rect, transform, e)
              ELSE self
        s2 == IF is_left_press(e) THEN OnPress(s1) ELSE s1
        s3 == IF is_left_release(e) THEN OnRelease(s2) ELSE s2
    IN  s3

\* Gets the current state of split.
state(self) ==
    CASE ~self.mouse_hover /\ ~self.dragging -> "Inactive"
      [] self.mouse_hover /\ ~self.dragging -> "Hover"
      [] self.mouse_hover /\ self.dragging -> "Drag"
      [] ~self.mouse_hover /\ self.dragging -> "DragNotFollowing"

(***************************************************************************)
(* SplitLayoutSettings                                                     *)
(***************************************************************************)
SplitLayoutSettings_new(border, min_value) ==
    [ border |-> border,
      center_min_size |-> <<1, 1>>,
      left_value |-> min_value, left_min_value |-> min_value,
      right_value |-> min_value, right_min_value |-> min_value,
      top_value |-> min_value, top_min_value |-> min_value,
      bottom_value |-> min_value, bottom_min_value |-> min_value,
      lock_left |-> FALSE, lock_right |-> FALSE,
      lock_top |-> FALSE, lock_bottom |-> FALSE ]

\* Set the value and minimum value for left split.
Settings_left(s, value, min_value) ==
    [s EXCEPT !.left_value = value, !.left_min_value = min_value]
Settings_right(s, value, min_value) ==
    [s EXCEPT !.right_value = value, !.right_min_value = min_value]
Settings_top(s, value, min_value) ==
    [s EXCEPT !.top_value = value, !.top_min_value = min_value]
Settings_bottom(s, value, min_value) ==
    [s EXCEPT !.bottom_value = value, !.bottom_min_value = min_value]

\* Locks left split, sets the minimum value at the same time.
Settings_lock_left(s, value) ==
    [s EXCEPT !.lock_left = TRUE, !.left_value = value, !.left_min_value = value]
Settings_lock_right(s, value) ==
    [s EXCEPT !.lock_right = TRUE, !.right_value = value, !.right_min_value = value]
Settings_lock_top(s, value) ==
    [s EXCEPT !.lock_top = TRUE, !.top_value = value, !.top_min_value = value]
Settings_lock_bottom(s, value) ==
    [s EXCEPT !.lock_bottom = TRUE, !.bottom_value = value, !.bottom_min_value = value]

\* center_min_size is a public field of the settings, assigned directly.
Settings_center_min_size(s, size) == [s EXCEPT !.center_min_size = size]

(***************************************************************************)
(* SplitLayoutController.  self is the record of its seven fields.         *)
(***************************************************************************)
SplitLayoutController_new(s) ==
    [ left |-> SplitController_new(s.left_value, s.left_min_value, s.border, "Left"),
      right |-> SplitController_new(s.right_value, s.right_min_value, s.border, "Right"),
      top |-> SplitController_new(s.top_value, s.top_min_value, s.border, "Top"),
      bottom |-> SplitController_new(s.bottom_value, s.bottom_min_value, s.border, "Bottom"),
      center_min_size |-> s.center_min_size,
      drag_splits |-> 0,
      lock_splits |-> (IF s.lock_left THEN LEFT ELSE 0) + (IF s.lock_right THEN RIGHT ELSE 0)
                      + (IF s.lock_top THEN TOP ELSE 0) + (IF s.lock_bottom THEN BOTTOM ELSE 0) ]

\* sign with the two purposes exchanged.
SignSwapped(purpose) == IF purpose = "Draw" THEN 0 ELSE 1

\* SplitLayoutPurpose::sign
sign(purpose) == IF purpose = "Draw" THEN 1 ELSE 0

\* Returns the left/right split layout.
left_right_layout(self, purpose) ==
    [ start |-> self.top.value + sign(purpose) * self.top.border,
      end |-> self.bottom.value + sign(purpose) * self.bottom.border ]

\* Returns the top/bottom split layout.
top_bottom_layout(self) == [start |-> 0, end |-> 0]

\* min_size without the two borders of each axis.
MinSizeWithoutBorders(self) ==
    << self.left.value + self.right.value + self.center_min_size[1],
       self.top.value + self.bottom.value + self.center_min_size[2] >>

\* Computes the minimum size using current values in split controls.
min_size(self) ==
    << self.left.value + self.left.border + self.right.value + self.right.border
         + self.center_min_size[1],
       self.top.value + self.top.border + self.bottom.value + self.bottom.border
         + self.center_min_size[2] >>

\* bounds that hands the window rectangle back as it is.
BoundsWithoutFloor(self, rect) == rect

\* bounds that takes the smaller of the two sizes.
BoundsMin(self, rect) ==
    << rect[1], rect[2], Min(rect[3], self.left.value + self.left.border + self.right.value
                                        + self.right.border + self.center_min_size[1]),
       Min(rect[4], self.top.value + self.top.border + self.bottom.value
                      + self.bottom.border + self.center_min_size[2]) >>

\* Computes the bounds from window bounds [x, y, w, h].
bounds(self, rect) ==
    LET ms == min_size(self)
    IN  << rect[1], rect[2], Max(rect[3], ms[1]), Max(rect[4], ms[2]) >>

\* Computes split rectangles for drawing [left, right, top, bottom].
rectangles(self, rect) ==
    LET b == bounds(self, rect)
        tbl == top_bottom_layout(self)
        lrl == left_right_layout(self, "Draw")
    IN  << line_rect(self.left, lrl, b), line_rect(self.right, lrl, b),
           line_rect(self.top, tbl, b), line_rect(self.bottom, tbl, b) >>

\* Returns the split controller states [left, right, top, bottom].
states(self) ==
    << state(self.left), state(self.right), state(self.top), state(self.bottom) >>

\* Computes panel rectangles for layout [left, right, top, bottom, center].
panel_rectangles(self, rect) ==
    LET b == bounds(self, rect)
        left_right_y == b[2] + self.top.value + self.top.border
        left_right_h == b[4] - self.top.value - self.top.border
                          - self.bottom.value - self.bottom.border
    IN  << << b[1], left_right_y, self.left.value, left_right_h >>,
           << b[1] + b[3] - self.right.value, left_right_y, self.right.value, left_right_h >>,
           << b[1], b[2], b[3], self.top.value >>,
           << b[1], b[2] + b[4] - self.bottom.value, b[3], self.bottom.value >>,
           << b[1] + self.left.value + self.left.border, left_right_y,
              b[3] - self.right.value - self.right.border
                - self.left.value - self.left.border, left_right_h >> >>

\* Routed without the drag-exclusivity test.
RoutedWithoutExclusivity(self, bit) == ~HasBit(self.lock_splits, bit)

\* Routed without the lock test.
RoutedWithoutLock(self, bit) == self.drag_splits = 0 \/ HasBit(self.drag_splits, bit)

\* Whether event() forwards the event to the split of this bit: the split is
\* not locked, and either no split is dragged or this one is.
Routed(self, bit) ==
    /\ ~HasBit(self.lock_splits, bit)
    /\ (self.drag_splits = 0 \/ HasBit(self.drag_splits, bit))

\* The max_value event() passes to each split; b is bounds(rect).
TopMaxValue(self, b) ==
    b[4] - self.bottom.value - self.center_min_size[2] - self.top.border - self.bottom.border
BottomMaxValue(self, b) ==
    b[4] - self.top.value - self.center_min_size[2] - self.bottom.border - self.top.border
\* The limit of the left split without the borders.
LeftMaxValueWithoutBorders(self, b) ==
    b[3] - self.right.value - self.center_min_size[1]
LeftMaxValue(self, b) ==
    b[3] - self.right.value - self.center_min_size[1] - self.left.border - self.right.border
RightMaxValue(self, b) ==
    b[3] - self.left.value - self.center_min_size[1] - self.right.border - self.left.border

\* The four blocks of event(), in the order of the source.  Each one sees the
\* values the blocks before it have written; b was computed before the first.
EventTop(self, b, transform, e) ==
    IF Routed(self, TOP)
    THEN [self EXCEPT !.top = SplitController_event(self.top, top_bottom_layout(self),
                                  TopMaxValue(self, b), b, transform, e)]
    ELSE self

EventBottom(self, b, transform, e) ==
    IF Routed(self, BOTTOM)
    THEN [self EXCEPT !.bottom = SplitController_event(self.bottom, top_bottom_layout(self),
                                     BottomMaxValue(self, b), b, transform, e)]
    ELSE self

EventLeft(self, b, transform, e) ==
    IF Routed(self, LEFT)
    THEN [self EXCEPT !.left = SplitController_event(self.left,
                                   left_right_layout(self, "Event"),
                                   LeftMaxValue(self, b), b, transform, e)]
    ELSE self

EventRight(self, b, transform, e) ==
    IF Routed(self, RIGHT)
    THEN [self EXCEPT !.right = SplitController_event(self.right,
                                    left_right_layout(self, "Event"),
                                    RightMaxValue(self, b), b, transform, e)]
    ELSE self

\* The drag mask event() recomputes from the four splits.
DragMask(self) ==
    (IF is_dragging(self.top) THEN TOP ELSE 0) + (IF is_dragging(self.bottom) THEN BOTTOM ELSE 0)
    + (IF is_dragging(self.left) THEN LEFT ELSE 0) + (IF is_dragging(self.right) THEN RIGHT ELSE 0)

\* SplitLayoutController::event
SplitLayoutController_event(self, rect, transform, e) ==
    LET b == bounds(self, rect)
        s1 == EventTop(self, b, transform, e)
        s2 == EventBottom(s1, b, transform, e)
        s3 == EventLeft(s2, b, transform, e)
        s4 == EventRight(s3, b, transform, e)
    IN  [s4 EXCEPT !.drag_splits = DragMask(s4)]

(***************************************************************************)
(* State.  The seven fields of the SplitLayoutController, the settings it  *)
(* was constructed from, and a record of the last call.                    *)
(***************************************************************************)
VARIABLES left, right, top, bottom, center_min_size, drag_splits, lock_splits,
          settings, last

vars == << left, right, top, bottom, center_min_size, drag_splits, lock_splits,
           settings, last >>

\* The SplitLayoutController of the current state.
Self ==
    [ left |-> left, right |-> right, top |-> top, bottom |-> bottom,
      center_min_size |-> center_min_size, drag_splits |-> drag_splits,
      lock_splits |-> lock_splits ]

\* The split of an edge.
Ctl(self, edge) ==
    CASE edge = "left" -> self.left
      [] edge = "right" -> self.right
      [] edge = "top" -> self.top
      [] edge = "bottom" -> self.bottom

\* The splits whose hit rectangle, as event() tests it, holds the local
\* position pos: the line rectangle under the layout window event() uses for
\* the split, inside the bounds b the call computed.
HitSet(self, b, pos) ==
    { edge \in Edges :
        is_inside(pos, line_rect(Ctl(self, edge),
                                 IF edge \in {"top", "bottom"} THEN top_bottom_layout(self)
                                 ELSE left_right_layout(self, "Event"),
                                 b)) }

\* A record of a call of event() that took self to next: the event, the
\* splits the call forwarded it to, the splits the pointer of a pointer-move
\* was over once the call had moved them, and the drag mask the call started
\* from.
CallRecord(self, next, rect, transform, e) ==
    [ op |-> "layout",
      kind |-> e.kind,
      button |-> e.button,
      called |-> {edge \in Edges : Routed(self, EdgeBit(edge))},
      hit |-> IF has_mouse_cursor_args(e)
              THEN HitSet(next, bounds(self, rect), inside_pos(e.pos, transform))
              ELSE {},
      pre_drag |-> self.drag_splits ]

Store(self) ==
    /\ left' = self.left
    /\ right' = self.right
    /\ top' = self.top
    /\ bottom' = self.bottom
    /\ center_min_size' = self.center_min_size
    /\ drag_splits' = self.drag_splits
    /\ lock_splits' = self.lock_splits

(***************************************************************************)
(* Inputs.                                                                 *)
(***************************************************************************)
Coords == 0..MaxCoord

Buttons == {"Left", "Right"}

Events ==
    {MoveEvent(<<x, y>>) : x \in Coords, y \in Coords}
      \cup {PressEvent(button) : button \in Buttons}
      \cup {ReleaseEvent(button) : button \in Buttons}
      \cup {OtherEvent}

\* A translation by (1, 1); the example passes the identity.
Translation == << <<1, 0, 1>>, <<0, 1, 1>> >>

\* A window with room to drag, and a displaced one narrower than any min_size.
Rects == { <<0, 0, MaxSide, MaxSide>>,
           <<RectOrigin, RectOrigin, 0, MaxSide - 1>> }

\* The calls of event(): every event in every window under the identity, and
\* pointer-moves at the corners of the pointer range under the translation.
Inputs ==
    {<<rect, identity, e>> : rect \in Rects, e \in Events}
      \cup {<<rect, Translation, MoveEvent(<<x, y>>)>> :
              rect \in Rects, x \in {0, MaxCoord}, y \in {0, MaxCoord}}

\* The settings the layouts of the model are constructed from: the defaults,
\* locked splits, a split that starts below its minimum and a zero border
\* (the code validates none of these).
SettingsSet ==
    { SplitLayoutSettings_new(2, 0),
      Settings_lock_left(SplitLayoutSettings_new(2, 0), 1),
      Settings_lock_top(Settings_lock_right(SplitLayoutSettings_new(2, 0), 0), 1),
      Settings_left(Settings_lock_top(Settings_lock_bottom(
                        SplitLayoutSettings_new(2, 0), 0), 0), 0, 1),
      SplitLayoutSettings_new(0, 1) }

(***************************************************************************)
(* Specification: a layout driven through SplitLayoutController::event.    *)
(***************************************************************************)
Constructed(s) ==
    /\ settings = s
    /\ left = SplitLayoutController_new(s).left
    /\ right = SplitLayoutController_new(s).right
    /\ top = SplitLayoutController_new(s).top
    /\ bottom = SplitLayoutController_new(s).bottom
    /\ center_min_size = SplitLayoutController_new(s).center_min_size
    /\ drag_splits = SplitLayoutController_new(s).drag_splits
    /\ lock_splits = SplitLayoutController_new(s).lock_splits
    /\ last = [ op |-> "new", kind |-> "other", button |-> "none",
                called |-> {}, hit |-> {}, pre_drag |-> 0 ]

Init == \E s \in SettingsSet : Constructed(s)

LayoutEvent(rect, transform, e) ==
    /\ \E next \in {SplitLayoutController_event(Self, rect, transform, e)} :
          /\ Store(next)
          /\ last' = CallRecord(Self, next, rect, transform, e)
    /\ UNCHANGED settings

Next == \E in \in Inputs : LayoutEvent(in[1], in[2], in[3])

Spec == Init /\ [][Next]_vars

(***************************************************************************)
(* Specification: one SplitController driven directly.  The four splits are*)
(* public fields of the layout and SplitController::event is public, so a  *)
(* host may call it with any layout window, max_value and rectangle.  The  *)
(* splits do not read each other, so a behaviour drives a single one.      *)
(***************************************************************************)
\* Pointer coordinates and the window side of the direct calls.
MaxCtlCoord == 3
\* The largest max_value of the direct calls; the smallest is -1.
MaxCtlValue == 3

CtlCoords == 0..MaxCtlCoord
CtlRects == { <<0, 0, MaxCtlCoord + 1, MaxCtlCoord + 1>>,
              <<1, 1, MaxCtlCoord, MaxCtlCoord>> }
CtlLayouts == { [start |-> 0, end |-> 0], [start |-> 1, end |-> 1] }
CtlMaxValues == (0 - 1)..MaxCtlValue

\* The arguments of the direct calls: pointer-moves with every window, layout
\* window and max_value; the other events, which read none of these, with one.
CtlInputs ==
    {<<layout, max_value, rect, identity, MoveEvent(<<x, y>>)>> :
        layout \in CtlLayouts, max_value \in CtlMaxValues, rect \in CtlRects,
        x \in CtlCoords, y \in CtlCoords}
      \cup {<<[start |-> 0, end |-> 0], 0, <<0, 0, MaxCtlCoord + 1, MaxCtlCoord + 1>>, identity, e>> :
              e \in {PressEvent(button) : button \in Buttons}
                      \cup {ReleaseEvent(button) : button \in Buttons}
                      \cup {OtherEvent}}

\* The offset of the pointer from the split's edge of rect before the limits
\* are applied, pos in local space.
PointerOffset(self, rect, pos) ==
    CASE self.orientation = "Left" -> pos[1] - rect[1] - HalfBorder(self.border)
      [] self.orientation = "Right" -> rect[3] - pos[1] + rect[1] - HalfBorder(self.border)
      [] self.orientation = "Top" -> pos[2] - rect[2] - HalfBorder(self.border)
      [] self.orientation = "Bottom" -> rect[2] + rect[4] - pos[2] - HalfBorder(self.border)

\* The pointer lies inside the span of the line along the split: between
\* layout.start and layout.end on the axis the split does not move on.
InCrossSpan(self, layout, rect, pos) ==
    IF self.orientation \in {"Left", "Right"}
    THEN rect[2] + layout.start <= pos[2] /\ pos[2] < rect[2] + rect[4] - layout.end
    ELSE rect[1] + layout.start <= pos[1] /\ pos[1] < rect[1] + rect[3] - layout.end

\* A record of a direct call that took the split self to next.
CtlCallRecord(edge, self, next, layout, max_value, rect, transform, e) ==
    [ op |-> "ctl",
      kind |-> e.kind,
      button |-> e.button,
      called |-> {edge},
      hit |-> IF has_mouse_cursor_args(e)
                 /\ is_inside(inside_pos(e.pos, transform), line_rect(next, layout, rect))
              THEN {edge} ELSE {},
      pre_drag |-> IF is_dragging(self) THEN EdgeBit(edge) ELSE 0,
      max_value |-> max_value,
      offset |-> IF has_mouse_cursor_args(e)
                 THEN PointerOffset(self, rect, inside_pos(e.pos, transform)) ELSE 0,
      cross |-> has_mouse_cursor_args(e)
                  /\ InCrossSpan(self, layout, rect, inside_pos(e.pos, transform)) ]

InitCtl == Constructed(SplitLayoutSettings_new(2, 1))

ControllerEvent(edge, layout, max_value, rect, transform, e) ==
    /\ last.op = "new" \/ last.called = {edge}
    /\ \E next \in {SplitController_event(Ctl(Self, edge), layout, max_value, rect,
                                          transform, e)} :
          /\ Store([Self EXCEPT ![edge] = next])
          /\ last' = CtlCallRecord(edge, Ctl(Self, edge), next, layout, max_value, rect,
                                   transform, e)
    /\ UNCHANGED settings

NextCtl == \E edge \in Edges, in \in CtlInputs :
               ControllerEvent(edge, in[1], in[2], in[3], in[4], in[5])

SpecCtl == InitCtl /\ [][NextCtl]_vars

(***************************************************************************)
(* Specification: the layout of the scenarios, border 2, value and minimum *)
(* 50 on every edge, center minimum 10 x 10, with and without a locked     *)
(* left split, in a 200 x 200 window behind a margin of 10 as in           *)
(* examples/ui_layout.rs.                                                  *)
(***************************************************************************)
ScenarioSettings ==
    Settings_center_min_size(SplitLayoutSettings_new(2, 50), <<10, 10>>)

\* Outside the window, in the left or top panel, on the left or top line, in
\* the center, on the right or bottom line.
ScenarioCoords == {0, 30, 61, 110, 159}
ScenarioPositions == {<<x, y>> : x \in ScenarioCoords, y \in ScenarioCoords}
ScenarioRect == <<10, 10, 200, 200>>

ScenarioInputs ==
    {<<ScenarioRect, identity, MoveEvent(pos)>> : pos \in ScenarioPositions}
      \cup {<<ScenarioRect, identity, e>> :
              e \in {PressEvent("Left"), ReleaseEvent("Left"), OtherEvent}}

InitScenario ==
    \E s \in {ScenarioSettings, Settings_lock_left(ScenarioSettings, 50)} : Constructed(s)

NextScenario == \E in \in ScenarioInputs : LayoutEvent(in[1], in[2], in[3])

SpecScenario == InitScenario /\ [][NextScenario]_vars

(***************************************************************************)
(* Specification: the layouts of Spec and one more whose center minimum is *)
(* negative on the x axis.  center_min_size is a public field that nothing *)
(* validates; with a negative width the left and right lines can meet.     *)
(***************************************************************************)
DegenerateSettings ==
    Settings_center_min_size(
        Settings_lock_top(Settings_lock_bottom(SplitLayoutSettings_new(2, 0), 0), 0),
        <<0 - 2, 1>>)

InitDegenerate == \E s \in SettingsSet \cup {DegenerateSettings} : Constructed(s)

SpecDegenerate == InitDegenerate /\ [][Next]_vars

(***************************************************************************)
(* Specification: the layouts of Spec under event sequences that hold no   *)
(* left-button press.                                                      *)
(***************************************************************************)
NextNoPress ==
    \E in \in Inputs : ~is_left_press(in[3]) /\ LayoutEvent(in[1], in[2], in[3])

SpecNoPress == Init /\ [][NextNoPress]_vars

(***************************************************************************)
(* Specification: two layouts, one with a locked left split and the one    *)
(* with the negative center minimum, for the claims that apply event()     *)
(* once more in every reachable state.                                     *)
(***************************************************************************)
InitWindow ==
    \E s \in {Settings_lock_left(SplitLayoutSettings_new(2, 0), 1), DegenerateSettings} :
        Constructed(s)

SpecWindow == InitWindow /\ [][Next]_vars

(***************************************************************************)
(* Vocabulary of the properties.                                           *)
(***************************************************************************)
Hover(edge) == Ctl(Self, edge).mouse_hover
Dragging(edge) == Ctl(Self, edge).dragging
Value(edge) == Ctl(Self, edge).value
MinValue(edge) == Ctl(Self, edge).min_value
StateOf(edge) == state(Ctl(Self, edge))

\* The lock flag, the initial value and the minimum value of an edge in the settings.
SettingsLock(edge) ==
    CASE edge = "left" -> settings.lock_left
      [] edge = "right" -> settings.lock_right
      [] edge = "top" -> settings.lock_top
      [] edge = "bottom" -> settings.lock_bottom
SettingsValue(edge) ==
    CASE edge = "left" -> settings.left_value
      [] edge = "right" -> settings.right_value
      [] edge = "top" -> settings.top_value
      [] edge = "bottom" -> settings.bottom_value
SettingsMinValue(edge) ==
    CASE edge = "left" -> settings.left_min_value
      [] edge = "right" -> settings.right_min_value
      [] edge = "top" -> settings.top_min_value
      [] edge = "bottom" -> settings.bottom_min_value

\* The limit event(rect, ..) computes for an edge in the current state.
MaxValueOf(edge, rect) ==
    CASE edge = "left" -> LeftMaxValue(Self, bounds(Self, rect))
      [] edge = "right" -> RightMaxValue(Self, bounds(Self, rect))
      [] edge = "top" -> TopMaxValue(Self, bounds(Self, rect))
      [] edge = "bottom" -> BottomMaxValue(Self, bounds(Self, rect))

\* The last call was event() with a pointer-move, a left press, a left release.
LastMove == last.op = "layout" /\ last.kind = "move"
LastLeftPress == last.op = "layout" /\ last.kind = "press" /\ last.button = "Left"
LastLeftRelease == last.op = "layout" /\ last.kind = "release" /\ last.button = "Left"

\* The edges of a mask.
EdgesOf(mask) == {edge \in Edges : HasBit(mask, EdgeBit(edge))}

(***************************************************************************)
(* C1 - drag exclusivity.                                                  *)
(***************************************************************************)
\* C1 as stated: while a split a is dragging and stays dragging, no other
\* split's hover or dragging flag changes.
C1_DragExclusivity ==
    [][\A a \in Edges, b \in Edges :
          (a # b /\ Dragging(a) /\ Dragging(a)')
            => (Hover(b)' = Hover(b) /\ Dragging(b)' = Dragging(b))]_vars

\* C1 amended: while some split is dragging, no split that is not itself
\* dragging changes its hover or dragging flag, also when the pointer of a
\* pointer-move is inside its hit rectangle; the splits that share the drag
\* (pressed where their hit rectangles overlap) keep being updated.
C1_DragExclusivityAmended ==
    [][\A b \in Edges :
          ((\E a \in Edges : Dragging(a)) /\ ~Dragging(b))
            => (Hover(b)' = Hover(b) /\ Dragging(b)' = Dragging(b))]_vars

\* A pointer-move during a drag fell inside the hit rectangle of an unlocked
\* split that is not part of the drag, and that split did not take it.
C1_Witness ==
    /\ LastMove
    /\ last.pre_drag # 0
    /\ \E b \in last.hit :
          /\ ~SettingsLock(b)
          /\ b \notin last.called
          /\ ~Hover(b)
          /\ ~Dragging(b)

(***************************************************************************)
(* C2 - lock enforcement.                                                  *)
(***************************************************************************)
\* C2: a split whose lock flag was set in the settings keeps the value it was
\* constructed with and is never hovered or dragged: its state is Inactive.
C2_LockEnforcement ==
    \A edge \in Edges :
        SettingsLock(edge) =>
            /\ Value(edge) = SettingsValue(edge)
            /\ ~Hover(edge)
            /\ ~Dragging(edge)
            /\ StateOf(edge) = "Inactive"

\* A pointer-move fell inside the hit rectangle of a locked split.
C2_Witness ==
    /\ LastMove
    /\ \E edge \in last.hit : SettingsLock(edge) /\ edge \notin last.called

(***************************************************************************)
(* C3 - clamping of a dragged value (checked under SpecCtl).               *)
(***************************************************************************)
\* The last call was SplitController::event with a pointer-move on a split
\* that was dragging.
LastCtlDragMove == last.op = "ctl" /\ last.kind = "move" /\ last.pre_drag # 0

\* C3 as stated: after a pointer-move on a dragging split its value is at
\* most the max_value of the call and at least min_value.
C3_Clamping ==
    LastCtlDragMove =>
        \A edge \in last.called :
            Value(edge) <= last.max_value /\ Value(edge) >= MinValue(edge)

\* C3 amended: the value is at most the max_value of the call; it is at least
\* min_value when min_value <= max_value.
C3_ClampingAmended ==
    LastCtlDragMove =>
        \A edge \in last.called :
            /\ Value(edge) <= last.max_value
            /\ MinValue(edge) <= last.max_value => Value(edge) >= MinValue(edge)

\* A pointer-move has dragged a split up to a max_value above its minimum.
C3_Witness ==
    /\ LastCtlDragMove
    /\ \E edge \in last.called :
          Value(edge) = last.max_value /\ MinValue(edge) < last.max_value

(***************************************************************************)
(* C4 - the value stays within its limits under the layout.                *)
(***************************************************************************)
\* Every edge was constructed with value >= min_value.
ConstructedWithinMin == \A edge \in Edges : SettingsValue(edge) >= SettingsMinValue(edge)

\* C4: if every edge was constructed with value >= min_value, then in every
\* state and for every window rectangle each value lies between the split's
\* min_value and the limit event() computes for it.
C4_ValueInvariant ==
    ConstructedWithinMin =>
        \A edge \in Edges, rect \in Rects :
            /\ MinValue(edge) <= Value(edge)
            /\ Value(edge) <= MaxValueOf(edge, rect)

\* A drag has moved a split away from the value it was constructed with.
C4_Witness ==
    /\ ConstructedWithinMin
    /\ LastMove
    /\ \E edge \in EdgesOf(last.pre_drag) : Value(edge) > SettingsValue(edge)

(***************************************************************************)
(* C5 - the state after a release.                                         *)
(***************************************************************************)
\* C5 as stated: a split in state Drag is Inactive after a left release.
C5_ReleaseToInactive ==
    [][\A edge \in Edges :
          (StateOf(edge) = "Drag" /\ LastLeftRelease')
            => StateOf(edge)' = "Inactive"]_vars

\* C5 amended: a left release clears dragging and leaves hover as it is, so
\* a split in state Drag is in state Hover afterwards, and a split in state
\* DragNotFollowing is Inactive.
C5_ReleaseKeepsHover ==
    [][\A edge \in Edges :
          LastLeftRelease' =>
            /\ StateOf(edge) = "Drag" => StateOf(edge)' = "Hover"
            /\ StateOf(edge) = "DragNotFollowing" => StateOf(edge)' = "Inactive"]_vars

\* A left release has ended the drag of a split the pointer is still over.
C5_Witness ==
    /\ LastLeftRelease
    /\ \E edge \in EdgesOf(last.pre_drag) : StateOf(edge) = "Hover"

(***************************************************************************)
(* C6 - scenario 1 (checked under SpecScenario).                           *)
(***************************************************************************)
\* C6 as stated: the layout constructed with border 2, value and minimum 50
\* on every edge and center minimum 10 x 10 has min_size() = [104, 104].
C6_Scenario1MinSize ==
    last.op = "new" => min_size(Self) = <<104, 104>>

\* C6 amended: min_size() of that layout is [114, 114], the sum
\* 50 + 2 + 50 + 2 + 10 the scenario itself writes down.
C6_Scenario1MinSizeAmended ==
    last.op = "new" => min_size(Self) = <<114, 114>>

\* The layout of scenario 1, as constructed.
C6_Witness ==
    /\ last.op = "new"
    /\ settings = ScenarioSettings
    /\ \A edge \in Edges :
          Value(edge) = 50 /\ MinValue(edge) = 50 /\ Ctl(Self, edge).border = 2
    /\ center_min_size = <<10, 10>>

(***************************************************************************)
(* C7 - the layout window of the left and right splits when handling       *)
(* events (checked under SpecScenario).                                    *)
(***************************************************************************)
\* The left or right split of next, the layout after event(rect, identity,
\* pointer-move to pos), is hovered exactly if pos is within the split's
\* x-range and from ystart below the top of bounds(rect) to yend above its
\* bottom.
HoverIsBand(edge, next, rect, pos, ystart, yend) ==
    LET b == bounds(Self, rect)
        c == Ctl(next, edge)
        x0 == IF edge = "left" THEN b[1] + c.value ELSE b[1] + b[3] - c.value - c.border
    IN  c.mouse_hover <=>
            /\ x0 <= pos[1] /\ pos[1] < x0 + c.border
            /\ b[2] + ystart <= pos[2] /\ pos[2] < b[2] + b[4] - yend

\* C7 as stated: the layout window event() uses for the left and right
\* splits is zero, and a pointer-move within the x-range of an unlocked left
\* or right split sets its hover at every y inside the bounds.
C7_EventWindowZero ==
    /\ left_right_layout(Self, "Event") = [start |-> 0, end |-> 0]
    /\ \A pos \in ScenarioPositions, edge \in {"left", "right"} :
          Routed(Self, EdgeBit(edge)) =>
              HoverIsBand(edge, SplitLayoutController_event(Self, ScenarioRect, identity,
                                                            MoveEvent(pos)),
                          ScenarioRect, pos, 0, 0)

\* C7 amended: the layout window event() uses for the left and right splits
\* starts at top.value and ends at bottom.value (the borders are left out),
\* so the hit rectangle runs from the top split's line to the bottom split's
\* line, both included, and not over the top and bottom panels.
C7_EventWindowOverLines ==
    /\ left_right_layout(Self, "Event") = [start |-> top.value, end |-> bottom.value]
    /\ \A pos \in ScenarioPositions, edge \in {"left", "right"} :
          Routed(Self, EdgeBit(edge)) =>
              LET next == SplitLayoutController_event(Self, ScenarioRect, identity,
                                                      MoveEvent(pos))
              IN  HoverIsBand(edge, next, ScenarioRect, pos,
                              next.top.value, next.bottom.value)

\* A pointer-move on the top split's line, within the x-range of the left
\* split, has set the hover of both.
C7_Witness ==
    /\ LastMove
    /\ {"left", "top"} \subseteq last.hit
    /\ "left" \in last.called
    /\ Hover("left")
    /\ Hover("top")
    /\ top.value > 0

(***************************************************************************)
(* C8 - the center keeps its minimum size.                                 *)
(***************************************************************************)
\* C8: for every window rectangle the center panel is at least
\* center_min_size wide and high.
C8_CenterMinimum ==
    \A rect \in Rects :
        /\ panel_rectangles(Self, rect)[5][3] >= center_min_size[1]
        /\ panel_rectangles(Self, rect)[5][4] >= center_min_size[2]

\* A split has been dragged to its limit: the center is exactly at its
\* minimum width in a window that was wider than the minimum size before.
C8_Witness ==
    /\ LastMove
    /\ \E edge \in EdgesOf(last.pre_drag) : Value(edge) > SettingsValue(edge)
    /\ \E rect \in Rects :
          /\ rect[3] > 0
          /\ panel_rectangles(Self, rect)[5][3] = center_min_size[1]

(***************************************************************************)
(* C9 - bounds never gets smaller than min_size.                           *)
(***************************************************************************)
\* C9: bounds(rect) keeps the origin of rect and is, on each axis, the larger
\* of the size of rect and min_size().
C9_BoundsFloor ==
    \A rect \in Rects :
        LET b == bounds(Self, rect)
            ms == min_size(Self)
        IN  /\ b[1] = rect[1] /\ b[2] = rect[2]
            /\ b[3] >= ms[1] /\ b[4] >= ms[2]
            /\ b[3] >= rect[3] /\ b[4] >= rect[4]
            /\ b[3] \in {rect[3], ms[1]} /\ b[4] \in {rect[4], ms[2]}

\* After an event, a window narrower than min_size() and one at least as
\* large as min_size() are both among the rectangles.
C9_Witness ==
    /\ last.op = "layout"
    /\ \E rect \in Rects : rect[3] < min_size(Self)[1] /\ rect[4] < min_size(Self)[2]
    /\ \E rect \in Rects : rect[3] >= min_size(Self)[1] /\ rect[4] >= min_size(Self)[2]

(***************************************************************************)
(* C10 - a release ends every drag.                                        *)
(***************************************************************************)
\* C10: after event() has processed a left release no split is dragging and
\* the drag mask is empty.
C10_ReleaseUnconditional ==
    LastLeftRelease => (drag_splits = 0 /\ \A edge \in Edges : ~Dragging(edge))

\* A left release has ended the drag of two splits, one of which the pointer
\* had left.
C10_Witness ==
    /\ LastLeftRelease
    /\ Cardinality(EdgesOf(last.pre_drag)) >= 2
    /\ \E edge \in EdgesOf(last.pre_drag) : ~Hover(edge)
    /\ drag_splits = 0

(***************************************************************************)
(* C11 - a press starts a drag only of a hovered split.                    *)
(***************************************************************************)
\* C11: a left press makes dragging only splits whose hover flag was set when
\* the press arrived; only a pointer-move changes a hover flag; and a left
\* press that is the first event after construction starts no drag.
C11_PressNeedsHover ==
    [][ /\ (last'.kind = "press" /\ last'.button = "Left") =>
              \A edge \in Edges : (Dragging(edge)' /\ ~Dragging(edge)) => Hover(edge)
        /\ last'.kind # "move" => \A edge \in Edges : Hover(edge)' = Hover(edge)
        /\ (last.op = "new" /\ last'.kind = "press") => drag_splits' = 0 ]_vars

\* A left press has started the drag of a hovered split and left an unlocked
\* split that was not hovered alone.
C11_Witness ==
    /\ LastLeftPress
    /\ last.pre_drag = 0
    /\ \E edge \in Edges : Dragging(edge) /\ Hover(edge)
    /\ \E edge \in Edges :
          ~HasBit(lock_splits, EdgeBit(edge)) /\ ~Hover(edge) /\ ~Dragging(edge)

(***************************************************************************)
(* C12 - the panels and the drawn lines tile the bounds.                   *)
(***************************************************************************)
\* The five panels followed by the four lines as drawn.
DrawnRectangles(self, rect) == panel_rectangles(self, rect) \o rectangles(self, rect)

\* Two rectangles share a point with positive area around it.
Overlap(a, b) ==
    /\ a[3] > 0 /\ a[4] > 0 /\ b[3] > 0 /\ b[4] > 0
    /\ a[1] < b[1] + b[3] /\ b[1] < a[1] + a[3]
    /\ a[2] < b[2] + b[4] /\ b[2] < a[2] + a[4]

\* Rectangle a has no negative side and lies inside rectangle b.
Within(a, b) ==
    /\ a[3] >= 0 /\ a[4] >= 0
    /\ b[1] <= a[1] /\ a[1] + a[3] <= b[1] + b[3]
    /\ b[2] <= a[2] /\ a[2] + a[4] <= b[2] + b[4]

RECURSIVE AreaSum(_)
AreaSum(rs) == IF rs = << >> THEN 0 ELSE Head(rs)[3] * Head(rs)[4] + AreaSum(Tail(rs))

\* The nine rectangles lie inside bounds(rect), no two overlap, and they
\* cover it: across the middle band and from top to bottom the sides add up.
Tiles(self, rect) ==
    LET b == bounds(self, rect)
        rs == DrawnRectangles(self, rect)
    IN  /\ \A i \in 1..9 : Within(rs[i], b)
        /\ \A i \in 1..9, j \in 1..9 : i < j => ~Overlap(rs[i], rs[j])
        /\ AreaSum(rs) = b[3] * b[4]
        /\ rs[1][3] + rs[6][3] + rs[5][3] + rs[7][3] + rs[2][3] = b[3]
        /\ rs[3][4] + rs[8][4] + rs[5][4] + rs[9][4] + rs[4][4] = b[4]

\* C12 as stated: in every reachable state the panels and the drawn lines
\* tile bounds(rect), for every window rect.
C12_PanelPartition == \A rect \in Rects : Tiles(Self, rect)

\* No border, no value and no side of the center minimum is negative.
NothingNegative ==
    /\ \A edge \in Edges : Ctl(Self, edge).border >= 0 /\ Value(edge) >= 0
    /\ center_min_size[1] >= 0 /\ center_min_size[2] >= 0

\* C12: in every reachable state with no negative border, value or center
\* minimum, the panels and the drawn lines tile bounds(rect), for every rect.
C12_PanelPartitionAmended == NothingNegative => \A rect \in Rects : Tiles(Self, rect)

\* After pointer-moves have dragged a left and a top split away from the
\* edges, every panel and line of some window has a positive area.
C12_Witness ==
    /\ LastMove
    /\ NothingNegative
    /\ Value("left") > 0 /\ Value("top") > 0
    /\ \E rect \in Rects :
          \A i \in {1, 3, 5, 6, 7, 8, 9} :
              DrawnRectangles(Self, rect)[i][3] > 0 /\ DrawnRectangles(Self, rect)[i][4] > 0

(***************************************************************************)
(* C13 - without a press the pointer only hovers.                          *)
(***************************************************************************)
\* C13: while no left press has been sent, no split is dragging and every
\* value is the constructed one; after a pointer-move an unlocked split whose
\* event hit rectangle holds the pointer is in state Hover, and every split
\* whose hit rectangle does not hold it is Inactive.
C13_HoverWithoutPress ==
    /\ drag_splits = 0
    /\ \A edge \in Edges : ~Dragging(edge) /\ Value(edge) = SettingsValue(edge)
    /\ LastMove =>
          \A edge \in Edges :
              /\ (edge \in last.hit /\ ~HasBit(lock_splits, EdgeBit(edge)))
                    => StateOf(edge) = "Hover"
              /\ edge \notin last.hit => StateOf(edge) = "Inactive"

\* The pointer has moved onto the right split, which hovers, and off the
\* unlocked left split, which is inactive.
C13_Witness ==
    /\ LastMove
    /\ "right" \in last.hit /\ StateOf("right") = "Hover"
    /\ "left" \notin last.hit /\ StateOf("left") = "Inactive"
    /\ ~HasBit(lock_splits, LEFT)

(***************************************************************************)
(* C14 - the upper limit wins (checked under SpecCtl).                     *)
(***************************************************************************)
\* C14: after a pointer-move on a dragging split whose min_value is above the
\* max_value of the call, the value is that max_value, below min_value,
\* wherever the pointer is.
C14_DegenerateClamp ==
    LastCtlDragMove =>
        \A edge \in last.called :
            MinValue(edge) > last.max_value =>
                Value(edge) = last.max_value /\ Value(edge) < MinValue(edge)

\* A pointer-move whose offset lay above min_value has left a dragging split
\* at a max_value below min_value.
C14_Witness ==
    /\ LastCtlDragMove
    /\ \E edge \in last.called :
          /\ MinValue(edge) > last.max_value
          /\ last.offset > MinValue(edge)
          /\ Value(edge) = last.max_value

(***************************************************************************)
(* C15 - events the controller does not read change nothing.               *)
(***************************************************************************)
\* The events that are no pointer-move, left press or left release.
IrrelevantEvents ==
    {e \in Events : e.kind # "move" /\ ~(e.kind \in {"press", "release"} /\ e.button = "Left")}

\* C15: in every reachable state, event() called with an event that is no
\* pointer-move, left press or left release (a press or release of another
\* button among them) returns the layout as it was: every value, hover flag,
\* dragging flag and the drag set.
C15_IrrelevantEventsNoOp ==
    \A rect \in Rects, e \in IrrelevantEvents :
        SplitLayoutController_event(Self, rect, identity, e) = Self

\* A press of the right button has arrived with the pointer over a split,
\* which still hovers and does not drag.
C15_Witness ==
    /\ last.op = "layout" /\ last.kind = "press" /\ last.button = "Right"
    /\ last.pre_drag = 0 /\ drag_splits = 0
    /\ \E edge \in Edges : Hover(edge) /\ ~Dragging(edge)

(***************************************************************************)
(* C16 - a dragged split follows the pointer (checked under SpecCtl).      *)
(***************************************************************************)
\* C16: after a pointer-move on a dragging split with a positive border, if
\* the pointer's offset lay within [min_value, max_value] and the pointer
\* inside the span of the line, the value is that offset and the state is
\* Drag; and the state is DragNotFollowing only if the limits moved the value
\* off the offset and the line off the pointer, or the pointer lay outside
\* the span.
C16_FollowsPointer ==
    LastCtlDragMove =>
        \A edge \in last.called :
            Ctl(Self, edge).border > 0 =>
                /\ (MinValue(edge) <= last.offset /\ last.offset <= last.max_value
                        /\ last.cross)
                      => (Value(edge) = last.offset /\ StateOf(edge) = "Drag")
                /\ StateOf(edge) = "DragNotFollowing"
                      => \/ Value(edge) # last.offset /\ edge \notin last.hit
                         \/ ~last.cross

\* A pointer-move inside the span and strictly between the limits has taken
\* a dragging split to the pointer's offset.
C16_Witness ==
    /\ LastCtlDragMove
    /\ \E edge \in last.called :
          /\ MinValue(edge) < last.offset /\ last.offset < last.max_value
          /\ last.cross
          /\ Value(edge) = last.offset
          /\ StateOf(edge) = "Drag"

(***************************************************************************)
(* C17 - the drag set changes only between empty and non-empty.            *)
(***************************************************************************)
\* C17: after every call of event() the drag mask holds exactly the splits
\* that are dragging, and if the call changed the drag set then either the
\* set was empty and the event a left press, or the set is empty now and the
\* event a left release.
C17_DragSetTransitions ==
    /\ EdgesOf(drag_splits) = {edge \in Edges : Dragging(edge)}
    /\ drag_splits \in 0..(LEFT + RIGHT + TOP + BOTTOM)
    /\ (last.op = "layout" /\ drag_splits # last.pre_drag) =>
          \/ last.pre_drag = 0 /\ drag_splits # 0 /\ LastLeftPress
          \/ last.pre_drag # 0 /\ drag_splits = 0 /\ LastLeftRelease

\* A left press that arrived during a drag of one split, with another split
\* unlocked, has left the drag set as it was.
C17_Witness ==
    /\ LastLeftPress
    /\ last.pre_drag # 0
    /\ drag_splits = last.pre_drag
    /\ \E edge \in Edges : ~HasBit(lock_splits, EdgeBit(edge)) /\ ~Dragging(edge)

(***************************************************************************)
(* C18 - opposite splits neither hover nor drag together.                  *)
(***************************************************************************)
\* Every border is positive and no side of the center minimum is negative.
PositiveBorders ==
    /\ \A edge \in Edges : Ctl(Self, edge).border > 0
    /\ center_min_size[1] >= 0 /\ center_min_size[2] >= 0

\* C18: with positive borders and a center minimum that is not negative, in
\* every reachable state left and right are not both hovered and not both
\* dragging, and neither are top and bottom; so the splits that drag
\* together are at most one of left and right and one of top and bottom.
C18_OppositeNeverTogether ==
    PositiveBorders =>
        /\ ~(Hover("left") /\ Hover("right")) /\ ~(Dragging("left") /\ Dragging("right"))
        /\ ~(Hover("top") /\ Hover("bottom")) /\ ~(Dragging("top") /\ Dragging("bottom"))
        /\ Cardinality(EdgesOf(drag_splits) \cap {"left", "right"}) <= 1
        /\ Cardinality(EdgesOf(drag_splits) \cap {"top", "bottom"}) <= 1

\* A press in a corner has started the drag of one of left and right
\* together with one of top and bottom.
C18_Witness ==
    /\ PositiveBorders
    /\ LastLeftPress
    /\ Cardinality(EdgesOf(drag_splits)) = 2
    /\ \E a \in {"left", "right"}, b \in {"top", "bottom"} :
          Dragging(a) /\ Hover(a) /\ Dragging(b) /\ Hover(b)

(***************************************************************************)
(* C19 - during a drag the other splits are inactive.                      *)
(***************************************************************************)
\* C19: in every reachable state in which some split is dragging, every
\* split that is not dragging has hover false, that is, state Inactive.  As
\* this holds in every state of the drag, it holds until the drag ends.
C19_FrozenInactive ==
    (\E edge \in Edges : Dragging(edge)) =>
        \A edge \in Edges :
            ~Dragging(edge) => (~Hover(edge) /\ StateOf(edge) = "Inactive")

\* During the drag of a single split a pointer-move has entered the hit
\* rectangle of another, unlocked split, which is still inactive.
C19_Witness ==
    /\ LastMove
    /\ Cardinality(EdgesOf(last.pre_drag)) = 1
    /\ drag_splits = last.pre_drag
    /\ \E edge \in last.hit :
          /\ ~HasBit(lock_splits, EdgeBit(edge))
          /\ ~Dragging(edge)
          /\ StateOf(edge) = "Inactive"

(***************************************************************************)
(* C20 - a drag does not push min_size() past the window.                  *)
(***************************************************************************)
\* min_size() of the layout as constructed.
ConstructedMinSize == min_size(SplitLayoutController_new(settings))

\* A call event(rect, ...) that took the layout to next has left min_size()
\* within the larger of the size of rect and min_size() before the call, on
\* both axes.
StaysWithinWindow(next, rect) ==
    /\ min_size(next)[1] <= Max(rect[3], min_size(Self)[1])
    /\ min_size(next)[2] <= Max(rect[4], min_size(Self)[2])

\* A call event(rect, ...) that took the layout to next has raised no value
\* on the axes in axes (1 for x, 2 for y) on which rect is smaller than
\* min_size().
RaisesNoValue(next, rect, axes) ==
    /\ (1 \in axes /\ rect[3] < min_size(Self)[1]) =>
          (next.left.value <= left.value /\ next.right.value <= right.value)
    /\ (2 \in axes /\ rect[4] < min_size(Self)[2]) =>
          (next.top.value <= top.value /\ next.bottom.value <= bottom.value)

\* A window that is at least as large as every window of the calls and as
\* min_size() of the constructed layout is its own bounds.
LargestWindowIsBounds ==
    \A rect \in Rects :
        ( /\ \A other \in Rects : other[3] <= rect[3] /\ other[4] <= rect[4]
          /\ ConstructedMinSize[1] <= rect[3] /\ ConstructedMinSize[2] <= rect[4] )
        => bounds(Self, rect) = rect

\* The axes on which at most one split is dragging.
SingleDragAxes ==
    {axis \in {1, 2} : IF axis = 1 THEN ~(Dragging("left") /\ Dragging("right"))
                                   ELSE ~(Dragging("top") /\ Dragging("bottom"))}

\* C20 as stated: every call leaves min_size() within the larger of the
\* window and min_size() before it; a window that is never exceeded is its own
\* bounds; and a call with a window smaller than min_size() on an axis raises
\* no value on that axis.
C20_NeverOutgrows ==
    /\ LargestWindowIsBounds
    /\ \A in \in Inputs :
          \A next \in {SplitLayoutController_event(Self, in[1], in[2], in[3])} :
              StaysWithinWindow(next, in[1]) /\ RaisesNoValue(next, in[1], {1, 2})

\* C20: as stated, except that a call with a window smaller than min_size()
\* on an axis raises no value on that axis when at most one split of that
\* axis is dragging.
C20_NeverOutgrowsAmended ==
    /\ LargestWindowIsBounds
    /\ \A in \in Inputs :
          \A next \in {SplitLayoutController_event(Self, in[1], in[2], in[3])} :
              StaysWithinWindow(next, in[1]) /\ RaisesNoValue(next, in[1], SingleDragAxes)

\* A pointer-move has dragged a single split to a value above its minimum,
\* and min_size() is now wider than one window and fills another.
C20_Witness ==
    /\ LastMove
    /\ Cardinality(EdgesOf(drag_splits)) = 1
    /\ \E edge \in EdgesOf(drag_splits) : Value(edge) > MinValue(edge)
    /\ \E rect \in Rects : rect[3] < min_size(Self)[1]
    /\ \E rect \in Rects : rect[3] = min_size(Self)[1] /\ bounds(Self, rect) = rect

(***************************************************************************)
(* C21 - what each kind of event leaves alone.                             *)
(***************************************************************************)
\* C21: a left press or release changes no value and no hover flag; a
\* pointer-move changes no dragging flag and changes the value only of splits
\* that were dragging when it arrived; and no event changes a min_value, a
\* border, an orientation, the center minimum or the lock set.
C21_FrameOfEvents ==
    [][ /\ (last'.kind \in {"press", "release"} /\ last'.button = "Left") =>
              \A edge \in Edges : Value(edge)' = Value(edge) /\ Hover(edge)' = Hover(edge)
        /\ last'.kind = "move" =>
              \A edge \in Edges :
                  /\ Dragging(edge)' = Dragging(edge)
                  /\ Value(edge)' # Value(edge) => Dragging(edge)
        /\ \A edge \in Edges :
              /\ MinValue(edge)' = MinValue(edge)
              /\ Ctl(Self, edge).border' = Ctl(Self, edge).border
              /\ Ctl(Self, edge).orientation' = Ctl(Self, edge).orientation
        /\ center_min_size' = center_min_size
        /\ lock_splits' = lock_splits ]_vars

\* A pointer-move over two unlocked splits has moved the one that was
\* dragging away from its constructed value and left the other, which was
\* not, at its constructed value.
C21_Witness ==
    /\ LastMove
    /\ \E a \in EdgesOf(last.pre_drag) : Dragging(a) /\ Value(a) # SettingsValue(a)
    /\ \E b \in last.hit :
          /\ ~HasBit(lock_splits, EdgeBit(b))
          /\ ~Dragging(b)
          /\ Value(b) = SettingsValue(b)

====
